---- MODULE Spec2Model ----
(***************************************************************************)
(* A model of vibrating::parse_arguments (mr-vibrating.hpp).               *)
(*                                                                         *)
(* Strings are sequences of one-character strings, so that sizes, single   *)
(* characters, prefixes and concatenations are computed as the code        *)
(* computes them.  argv and the option tuple are 0-based functions, as in  *)
(* the source.  One behaviour is one call of parse_arguments; one step is  *)
(* one iteration of its while loop, or the code after the loop.            *)
(***************************************************************************)
EXTENDS Integers, Sequences, FiniteSets, TLC

VARIABLES
  argc,                   \* number of entries of argv
  argv,                   \* [0..argc-1 -> token], argv[0] is the program name
  option_specifiers,      \* [0..N-1 -> descriptor], the tuple of Options
  has_positional,         \* positional_arguments != nullptr
  positional_arguments,   \* contents of the caller's vector
  found_options,          \* [0..N-1 -> BOOLEAN]
  end_of_options_reached,
  i,                      \* the scan cursor
  Value,                  \* [0..N-1 -> value], the bound variables
  pc,                     \* "scan" inside the loop, "done" after return
  result,                 \* the returned string
  iteration,              \* loop iterations begun so far, modulo 2
  argv_reads,             \* the indices argv has been read at
  usage,                  \* the string usage_string has returned
  Value0,                 \* the bound variables when the call started
  positional0             \* the vector's contents when the call started

vars == <<argc, argv, option_specifiers, has_positional, positional_arguments,
          found_options, end_of_options_reached, i, Value, pc, result,
          iteration, argv_reads, usage, Value0, positional0>>

----------------------------------------------------------------------------
(* Bounds *)

MaxArgs == 3        \* arguments after the program name

----------------------------------------------------------------------------
(* Strings *)

Str0(s) == [k \in 0..(Len(s) - 1) |-> s[k + 1]]     \* a tuple as 0-based array

NUL == "NUL"                                         \* the character '\0'

TokProg     == <<"p">>
TokTerm     == <<"-", "-">>
TokShortN   == <<"-", "n">>
TokShortF   == <<"-", "f">>
TokShortS   == <<"-", "s">>
TokShortX   == <<"-", "x">>
TokLongNum  == <<"-", "-", "n", "u", "m", "b", "e", "r">>
TokLongFlag == <<"-", "-", "f", "l", "a", "g">>
TokFive     == <<"5">>
TokWord     == <<"a", "b">>
TokEmpty    == <<>>
TokDashes   == <<"-", "a", "b">>
TokDash     == <<"-">>
TokFiveA    == <<"5", "a">>

Tokens == {TokTerm, TokShortN, TokShortF, TokShortS, TokShortX, TokLongNum,
           TokLongFlag, TokFive, TokWord, TokEmpty, TokDashes, TokDash,
           TokFiveA}

----------------------------------------------------------------------------
(* Option descriptors *)

OptionBool(help_string, long_opt, short_opt) ==
  [Kind |-> "bool", HelpString |-> help_string, LongOpt |-> long_opt,
   ShortOpt |-> short_opt, Required |-> FALSE, ReadsValue |-> FALSE]

Option(kind, help_string, long_opt, short_opt, required) ==
  [Kind |-> kind, HelpString |-> help_string, LongOpt |-> long_opt,
   ShortOpt |-> short_opt, Required |-> required, ReadsValue |-> TRUE]

\* a help text is kept whole, as one element
HelpTexts == {"Display usage string and exit", "Set mr_flag to true",
              "An required integer parameter", "An optional string", "help"}

\* the option tuple of the example program
ExampleOpts ==
  Str0(<<OptionBool(<<"Display usage string and exit">>,
                    <<"u", "s", "a", "g", "e">>, "u"),
         OptionBool(<<"Set mr_flag to true">>, <<"f", "l", "a", "g">>, "f"),
         Option("int", <<"An required integer parameter">>,
                <<"n", "u", "m", "b", "e", "r">>, "n", TRUE),
         Option("string", <<"An optional string">>,
                <<"o", "p", "t", "i", "o", "n", "a", "l", "-",
                  "s", "t", "r", "i", "n", "g">>, "s", FALSE)>>)

\* a tuple with a short-only and a long-only required option, and a boolean
\* whose long spelling is shadowed by an earlier descriptor
ShadowOpts ==
  Str0(<<Option("int", <<"help">>, <<>>, "n", TRUE),
         Option("string", <<"help">>, <<"n", "u", "m", "b", "e", "r">>, NUL, TRUE),
         OptionBool(<<"help">>, <<"n", "u", "m", "b", "e", "r">>, "f")>>)

OptionSets == {ExampleOpts, ShadowOpts}

NumOptions(opts) == Cardinality(DOMAIN opts)

DefaultString == <<"d">>

\* What a bound variable can hold when the call starts: the Option<bool>
\* constructor stores false; an int may be uninitialized (any value); a string
\* holds the caller's default.
UninitializedInts == {0, 7}

\* InitialValues without the store of false in the Option<bool> constructor
InitialValues_NoForce(opts) ==
  {[k \in DOMAIN opts |->
      CASE opts[k].Kind = "bool"   -> n[k] = 7
        [] opts[k].Kind = "int"    -> n[k]
        [] opts[k].Kind = "string" -> DefaultString]
   : n \in [DOMAIN opts -> UninitializedInts]}

InitialValues(opts) ==
  {[k \in DOMAIN opts |->
      CASE opts[k].Kind = "bool"   -> FALSE
        [] opts[k].Kind = "int"    -> n[k]
        [] opts[k].Kind = "string" -> DefaultString]
   : n \in [DOMAIN opts -> UninitializedInts]}

----------------------------------------------------------------------------
(* detail::from_string *)

IsSpace(c) == c = " "

DigitValue(c) ==
  CASE c = "0" -> 0 [] c = "1" -> 1 [] c = "2" -> 2 [] c = "3" -> 3
    [] c = "4" -> 4 [] c = "5" -> 5 [] c = "6" -> 6 [] c = "7" -> 7
    [] c = "8" -> 8 [] c = "9" -> 9
    [] c = "a" -> 10 [] c = "b" -> 11 [] c = "c" -> 12
    [] c = "d" -> 13 [] c = "e" -> 14 [] c = "f" -> 15
    [] OTHER -> 99

RECURSIVE SkipSpace(_, _)
SkipSpace(s, k) ==
  IF k <= Len(s) /\ IsSpace(s[k]) THEN SkipSpace(s, k + 1) ELSE k

RECURSIVE Digits(_, _, _, _)
\* consume digits of the base from position k; acc is the value so far
Digits(s, k, base, acc) ==
  IF k <= Len(s) /\ DigitValue(s[k]) < base
    THEN Digits(s, k + 1, base, acc * base + DigitValue(s[k]))
    ELSE [value |-> acc, end |-> k]

\* strtol(s, &e, 0): value and the 1-based position e stops at; when no
\* digits are converted e is the start of the string
strtol(s) ==
  LET k0   == SkipSpace(s, 1)
      neg  == k0 <= Len(s) /\ s[k0] = "-"
      k1   == IF k0 <= Len(s) /\ s[k0] \in {"-", "+"} THEN k0 + 1 ELSE k0
      hex  == k1 + 2 <= Len(s) /\ s[k1] = "0" /\ s[k1 + 1] = "x"
              /\ DigitValue(s[k1 + 2]) < 16
      base == IF hex THEN 16
              ELSE IF k1 <= Len(s) /\ s[k1] = "0" THEN 8 ELSE 10
      k2   == IF hex THEN k1 + 2 ELSE k1
      d    == Digits(s, k2, base, 0)
  IN  IF d.end = k2
        THEN [value |-> 0, end |-> 1]
        ELSE [value |-> IF neg THEN 0 - d.value ELSE d.value, end |-> d.end]

\* from_string(s, t): the value stored into t and the returned bool
from_string(kind, s) ==
  IF kind = "string"
    THEN [t |-> s, ok |-> TRUE]
    ELSE [t |-> strtol(s).value, ok |-> strtol(s).end = Len(s) + 1]

----------------------------------------------------------------------------
(* detail::find_match *)

create_option_match(opt, index) ==
  [Matched |-> TRUE, ReadsValue |-> opt.ReadsValue, Index |-> index]

RECURSIVE find_match_LongOnly(_, _, _)
\* find_match without the short-spelling test
find_match_LongOnly(opts, opt, N) ==
  IF N >= NumOptions(opts)
    THEN [Matched |-> FALSE, ReadsValue |-> FALSE, Index |-> 0]
    ELSE LET a == opts[N]
         IN  IF a.LongOpt = opt
               THEN create_option_match(a, N)
               ELSE find_match_LongOnly(opts, opt, N + 1)

RECURSIVE find_match_NoSize(_, _, _)
\* find_match comparing the short spelling without the size test
find_match_NoSize(opts, opt, N) ==
  IF N >= NumOptions(opts)
    THEN [Matched |-> FALSE, ReadsValue |-> FALSE, Index |-> 0]
    ELSE LET a == opts[N]
         IN  IF a.ShortOpt = opt[1] \/ a.LongOpt = opt
               THEN create_option_match(a, N)
               ELSE find_match_NoSize(opts, opt, N + 1)

RECURSIVE find_match_Last(_, _, _)
\* find_match preferring a later descriptor to an earlier one
find_match_Last(opts, opt, N) ==
  IF N >= NumOptions(opts)
    THEN [Matched |-> FALSE, ReadsValue |-> FALSE, Index |-> 0]
    ELSE LET a    == opts[N]
             rest == find_match_Last(opts, opt, N + 1)
         IN  IF rest.Matched
               THEN rest
               ELSE IF (Len(opt) = 1 /\ a.ShortOpt = opt[1]) \/ a.LongOpt = opt
                 THEN create_option_match(a, N)
                 ELSE rest

RECURSIVE find_match(_, _, _)
find_match(opts, opt, N) ==
  IF N >= NumOptions(opts)
    THEN [Matched |-> FALSE, ReadsValue |-> FALSE, Index |-> 0]
    ELSE LET a == opts[N]
         IN  IF (Len(opt) = 1 /\ a.ShortOpt = opt[1]) \/ a.LongOpt = opt
               THEN create_option_match(a, N)
               ELSE find_match(opts, opt, N + 1)

----------------------------------------------------------------------------
(* detail::CheckRequiredOptions *)

\* MissingLine preferring the short spelling
MissingLine_ShortFirst(a) ==
  <<"Missing required option \"">>
    \o (IF a.ShortOpt # NUL THEN <<"-", a.ShortOpt>> ELSE <<"-", "-">> \o a.LongOpt)
    \o <<"\"\n">>

\* the line operator() appends for a missing required option
MissingLine(a) ==
  <<"Missing required option \"">>
    \o (IF a.LongOpt = <<>> THEN <<"-", a.ShortOpt>> ELSE <<"-", "-">> \o a.LongOpt)
    \o <<"\"\n">>

RECURSIVE CheckRequiredOptions(_, _, _, _)
\* traverse_tuple from index N; c is the functor: Failed and ErrorAccumulator
CheckRequiredOptions(opts, found, N, c) ==
  IF N >= NumOptions(opts)
    THEN c
    ELSE LET all_ok == found[N] \/ ~opts[N].Required
         IN  CheckRequiredOptions(opts, found, N + 1,
               IF ~all_ok
                 THEN [Failed |-> TRUE,
                       ErrorAccumulator |-> c.ErrorAccumulator \o MissingLine(opts[N])]
                 ELSE c)

----------------------------------------------------------------------------
(* usage_string *)

type_string(kind) ==
  CASE kind = "int"    -> <<"i", "n", "t">>
    [] kind = "string" -> <<"s", "t", "r", "i", "n", "g">>
    [] OTHER           -> <<"u", "n", "k", "n", "o", "w", "n">>

Max(a, b) == IF a >= b THEN a ELSE b

\* MaxOptionLength that leaves the type tag out
MaxOptionLength_NoTag(a, MaxLength) == Max(MaxLength, Len(a.LongOpt))

\* MaxOptionLength::operator(): MaxLength after visiting a
MaxOptionLength(a, MaxLength) ==
  IF a.ReadsValue
    THEN Max(MaxLength, Len(a.LongOpt) + 1 + Len(type_string(a.Kind)))
    ELSE Max(MaxLength, Len(a.LongOpt))

RECURSIVE MaxOptionLengthOver(_, _, _)
\* traverse_tuple(m, option_specifiers) from index N
MaxOptionLengthOver(opts, N, MaxLength) ==
  IF N >= NumOptions(opts)
    THEN MaxLength
    ELSE MaxOptionLengthOver(opts, N + 1, MaxOptionLength(opts[N], MaxLength))

Spaces(n) == [k \in 1..n |-> " "]

RECURSIVE DecimalDigits(_)
DecimalDigits(n) ==
  IF n < 10 THEN <<SubSeq(<<"0", "1", "2", "3", "4", "5", "6", "7", "8", "9">>,
                          n + 1, n + 1)[1]>>
  ELSE DecimalDigits(n \div 10) \o DecimalDigits(n % 10)

\* operator<< of an int
to_string(n) == IF n < 0 THEN <<"-">> \o DecimalDigits(0 - n) ELSE DecimalDigits(n)

\* UsagePrinter::operator(): the padding count, as the signed difference, and
\* the text before and after the padding
UsagePrinter(a, value, LengthPad) ==
  LET has_short_opt == a.ShortOpt # NUL
      has_long_opt  == a.LongOpt # <<>>
  IN  [before |-> <<" ", " ">>
                    \o (IF has_short_opt THEN <<"-", a.ShortOpt>> ELSE <<" ", " ">>)
                    \o (IF has_long_opt THEN <<" ", "-", "-">> \o a.LongOpt ELSE <<>>)
                    \o (IF a.ReadsValue THEN <<" ">> \o type_string(a.Kind) ELSE <<>>),
       pad    |-> LengthPad + (IF has_long_opt THEN 2 ELSE 5) - MaxOptionLength(a, 0),
       after  |-> a.HelpString
                    \o (IF ~a.Required /\ a.Kind # "bool"
                          THEN IF a.Kind = "string"
                                 THEN <<" (default: \"">> \o value \o <<"\")">>
                                 ELSE <<" (default: ">> \o to_string(value) \o <<")">>
                          ELSE <<>>)
                    \o <<"\n">>]

RECURSIVE UsageLines(_, _, _, _)
\* traverse_tuple(UsagePrinter(usage, m.MaxLength), option_specifiers) from N.
\* A negative difference is a size_t near its maximum, and std::string of
\* that many characters throws.
UsageLines(opts, values, N, LengthPad) ==
  IF N >= NumOptions(opts)
    THEN [threw |-> FALSE, text |-> <<>>]
    ELSE LET line == UsagePrinter(opts[N], values[N], LengthPad)
             rest == UsageLines(opts, values, N + 1, LengthPad)
         IN  IF line.pad < 0 \/ rest.threw
               THEN [threw |-> TRUE, text |-> <<>>]
               ELSE [threw |-> FALSE,
                     text  |-> line.before \o Spaces(line.pad) \o line.after
                                 \o rest.text]

usage_string(program_name, opts, values, positional_arguments_enabled, positional_argument_type) ==
  LET header == <<"Usage: ", program_name, " [option]...">>
                  \o (IF positional_arguments_enabled
                        THEN <<" [--] [", positional_argument_type, "]...">>
                        ELSE <<>>)
                  \o <<"\n">>
      lines  == UsageLines(opts, values, 0, MaxOptionLengthOver(opts, 0, 0))
  IN  IF lines.threw THEN <<"std::length_error">> ELSE header \o lines.text

----------------------------------------------------------------------------
(* parse_arguments *)

arg == argv[i]

\* OptOf taking any single-dash token for a short option
OptOf_AnyLength(a, end_reached) ==
  IF end_reached THEN <<>>
  ELSE IF Len(a) >= 2 /\ a[1] = "-" /\ a[2] # "-" THEN SubSeq(a, 2, Len(a))
  ELSE IF Len(a) >= 3 /\ a[1] = "-" /\ a[2] = "-" THEN SubSeq(a, 3, Len(a))
  ELSE <<>>

\* the option spelling extracted from a token, empty for a positional argument
OptOf(a, end_reached) ==
  IF end_reached THEN <<>>
  ELSE IF Len(a) = 2 /\ a[1] = "-" /\ a[2] # "-" THEN SubSeq(a, 2, Len(a))
  ELSE IF Len(a) >= 3 /\ a[1] = "-" /\ a[2] = "-" THEN SubSeq(a, 3, Len(a))
  ELSE <<>>

opt == OptOf(arg, end_of_options_reached)

match == find_match(option_specifiers, opt, 0)

\* Return that records the string and lets the loop run on
Return_NoStop(s) ==
  /\ pc' = pc
  /\ result' = s

\* the body of the while loop is entered once more
EnterLoop ==
  /\ pc = "scan" /\ i < argc
  /\ iteration' = 1 - iteration

\* return s
Return(s) ==
  /\ pc' = "done"
  /\ result' = s

\* what the caller's vector can hold when the call starts
InitialPositionals == {<<>>, <<TokWord>>}

Init ==
  /\ argc \in 1..(MaxArgs + 1)
  /\ argv \in [0..(argc - 1) -> Tokens \cup {TokProg}]
  /\ argv[0] = TokProg
  /\ \A k \in 1..(argc - 1) : argv[k] \in Tokens
  /\ option_specifiers \in OptionSets
  /\ has_positional \in BOOLEAN
  /\ positional_arguments \in InitialPositionals
  /\ ~has_positional => positional_arguments = <<>>
  /\ found_options = [k \in DOMAIN option_specifiers |-> FALSE]
  /\ end_of_options_reached = FALSE
  /\ i = 1
  /\ Value \in InitialValues(option_specifiers)
  /\ pc = "scan"
  /\ result = <<>>
  /\ iteration = 0
  /\ argv_reads = {}
  /\ usage = <<>>
  /\ Value0 = Value
  /\ positional0 = positional_arguments

\* arg == "--": set the flag and continue
EndOfOptions ==
  /\ EnterLoop
  /\ arg = TokTerm
  /\ end_of_options_reached' = TRUE
  /\ argv_reads' = argv_reads \cup {i}
  /\ UNCHANGED <<argc, argv, option_specifiers, has_positional,
                 positional_arguments, found_options, i, Value, pc, result,
                 usage, Value0, positional0>>

\* Positional appending opt, which is empty, in place of arg
Positional_PushOpt ==
  /\ EnterLoop
  /\ arg # TokTerm
  /\ opt = <<>>
  /\ IF has_positional
       THEN /\ positional_arguments' = Append(positional_arguments, opt)
            /\ i' = i + 1
            /\ UNCHANGED <<pc, result>>
       ELSE /\ Return(<<"Bare option found!">>)
            /\ UNCHANGED <<positional_arguments, i>>
  /\ argv_reads' = argv_reads \cup {i}
  /\ UNCHANGED <<argc, argv, option_specifiers, has_positional, found_options,
                 end_of_options_reached, Value, usage, Value0, positional0>>

\* opt.empty(): a positional argument
Positional ==
  /\ EnterLoop
  /\ arg # TokTerm
  /\ opt = <<>>
  /\ IF has_positional
       THEN /\ positional_arguments' = Append(positional_arguments, arg)
            /\ i' = i + 1
            /\ UNCHANGED <<pc, result>>
       ELSE /\ Return(<<"Bare option found!">>)
            /\ UNCHANGED <<positional_arguments, i>>
  /\ argv_reads' = argv_reads \cup {i}
  /\ UNCHANGED <<argc, argv, option_specifiers, has_positional, found_options,
                 end_of_options_reached, Value, usage, Value0, positional0>>

\* ReadValue without the increment that steps over the value
ReadValue_NoSkip(m) ==
  IF i + 1 >= argc
    THEN /\ i' = i + 1
         /\ Return(<<"No value for option ">> \o opt)
         /\ argv_reads' = argv_reads \cup {i}
         /\ UNCHANGED Value
    ELSE LET value == argv[i + 1]
             fill  == from_string(option_specifiers[m.Index].Kind, value)
         IN  /\ Value' = [Value EXCEPT ![m.Index] = fill.t]
             /\ argv_reads' = argv_reads \cup {i, i + 1}
             /\ IF fill.ok
                  THEN /\ i' = i + 1
                       /\ UNCHANGED <<pc, result>>
                  ELSE /\ i' = i + 1
                       /\ Return(<<"Unable to parse value \"">> \o value
                                   \o <<"\" for option ">> \o opt)

\* ReadValue without the return for a missing value
ReadValue_SilentMissing(m) ==
  IF i + 1 >= argc
    THEN /\ i' = i + 1
         /\ argv_reads' = argv_reads \cup {i}
         /\ UNCHANGED <<Value, pc, result>>
    ELSE LET value == argv[i + 1]
             fill  == from_string(option_specifiers[m.Index].Kind, value)
         IN  /\ Value' = [Value EXCEPT ![m.Index] = fill.t]
             /\ argv_reads' = argv_reads \cup {i, i + 1}
             /\ IF fill.ok
                  THEN /\ i' = i + 2
                       /\ UNCHANGED <<pc, result>>
                  ELSE /\ i' = i + 1
                       /\ Return(<<"Unable to parse value \"">> \o value
                                   \o <<"\" for option ">> \o opt)

\* ReadValue reading the argument before it tests that there is one
ReadValue_ReadFirst(m) ==
  IF i + 1 >= argc
    THEN /\ i' = i + 1
         /\ Return(<<"No value for option ">> \o opt)
         /\ argv_reads' = argv_reads \cup {i, i + 1}
         /\ UNCHANGED Value
    ELSE LET value == argv[i + 1]
             fill  == from_string(option_specifiers[m.Index].Kind, value)
         IN  /\ Value' = [Value EXCEPT ![m.Index] = fill.t]
             /\ argv_reads' = argv_reads \cup {i, i + 1}
             /\ IF fill.ok
                  THEN /\ i' = i + 2
                       /\ UNCHANGED <<pc, result>>
                  ELSE /\ i' = i + 1
                       /\ Return(<<"Unable to parse value \"">> \o value
                                   \o <<"\" for option ">> \o opt)

\* match.ReadsValue: read the next argument as the value of option m
ReadValue(m) ==
  IF i + 1 >= argc
    THEN /\ i' = i + 1
         /\ Return(<<"No value for option ">> \o opt)
         /\ argv_reads' = argv_reads \cup {i}
         /\ UNCHANGED Value
    ELSE LET value == argv[i + 1]
             fill  == from_string(option_specifiers[m.Index].Kind, value)
         IN  /\ Value' = [Value EXCEPT ![m.Index] = fill.t]
             /\ argv_reads' = argv_reads \cup {i, i + 1}
             /\ IF fill.ok
                  THEN /\ i' = i + 2
                       /\ UNCHANGED <<pc, result>>
                  ELSE /\ i' = i + 1
                       /\ Return(<<"Unable to parse value \"">> \o value
                                   \o <<"\" for option ">> \o opt)

\* !opt.empty(): an option
OptionFound ==
  /\ EnterLoop
  /\ arg # TokTerm
  /\ opt # <<>>
  /\ IF ~match.Matched
       THEN /\ Return(<<"Unrecognized option found: ">> \o opt)
            /\ argv_reads' = argv_reads \cup {i}
            /\ UNCHANGED <<found_options, i, Value>>
     ELSE IF found_options[match.Index]
       THEN /\ Return(<<"Duplicate option found: ">> \o opt)
            /\ argv_reads' = argv_reads \cup {i}
            /\ UNCHANGED <<found_options, i, Value>>
     ELSE /\ found_options' = [found_options EXCEPT ![match.Index] = TRUE]
          /\ IF match.ReadsValue
               THEN ReadValue(match)
               ELSE /\ i' = i + 1
                    /\ argv_reads' = argv_reads \cup {i}
                    /\ UNCHANGED <<Value, pc, result>>
  /\ UNCHANGED <<argc, argv, option_specifiers, has_positional,
                 positional_arguments, end_of_options_reached, usage, Value0,
                 positional0>>

\* the loop has ended: check the required options and return
CheckRequired ==
  /\ pc = "scan" /\ i >= argc
  /\ LET check_required_options ==
           CheckRequiredOptions(option_specifiers, found_options, 0,
                                [Failed |-> FALSE, ErrorAccumulator |-> <<>>])
     IN  IF check_required_options.Failed
           THEN Return(check_required_options.ErrorAccumulator)
           ELSE Return(<<>>)
  /\ UNCHANGED <<argc, argv, option_specifiers, has_positional,
                 positional_arguments, found_options, end_of_options_reached,
                 i, Value, iteration, argv_reads, usage, Value0,
                 positional0>>

Next == EndOfOptions \/ Positional \/ OptionFound \/ CheckRequired

Spec == Init /\ [][Next]_vars

\* the call runs on one thread and every loop iteration is executed
FairSpec == Spec /\ WF_vars(Next)

----------------------------------------------------------------------------
(* A call of usage_string *)

MaxUsageOptions == 2        \* descriptors in a tuple given to usage_string

UsageLongOpts == {<<>>, <<"a", "b">>, <<"n", "u", "m", "b", "e", "r">>}

UsageShortOpts == {NUL, "n"}

\* descriptors with at least one spelling
UsageDescriptors ==
  {a \in {OptionBool(<<"help">>, l, c) : l \in UsageLongOpts, c \in UsageShortOpts}
         \cup {Option(kind, <<"help">>, l, c, r) :
                 kind \in {"int", "string"}, l \in UsageLongOpts,
                 c \in UsageShortOpts, r \in BOOLEAN} :
     a.LongOpt # <<>> \/ a.ShortOpt # NUL}

UsageOptionSets ==
  UNION {[0..(n - 1) -> UsageDescriptors] : n \in 1..MaxUsageOptions}
    \cup OptionSets

UsageInit ==
  /\ argc = 1
  /\ argv = Str0(<<TokProg>>)
  /\ option_specifiers \in UsageOptionSets
  /\ has_positional \in BOOLEAN
  /\ positional_arguments = <<>>
  /\ found_options = [k \in DOMAIN option_specifiers |-> FALSE]
  /\ end_of_options_reached = FALSE
  /\ i = 1
  /\ Value \in InitialValues(option_specifiers)
  /\ pc = "usage"
  /\ result = <<>>
  /\ iteration = 0
  /\ argv_reads = {}
  /\ usage = <<>>
  /\ Value0 = Value
  /\ positional0 = positional_arguments

\* usage_string("ExampleProgram", opts, positional_arguments_enabled)
UsageString ==
  /\ pc = "usage"
  /\ usage' = usage_string("ExampleProgram", option_specifiers, Value,
                           has_positional, "file")
  /\ pc' = "done"
  /\ UNCHANGED <<argc, argv, option_specifiers, has_positional,
                 positional_arguments, found_options, end_of_options_reached,
                 i, Value, result, iteration, argv_reads, Value0, positional0>>

UsageNext == UsageString

UsageSpec == UsageInit /\ [][UsageNext]_vars

----------------------------------------------------------------------------
(* Properties *)

Descriptors == DOMAIN option_specifiers

\* the arguments after index k, in order
TailFrom(k) == [j \in 1..(argc - 1 - k) |-> argv[k + j]]

IsSuffix(t, s) ==
  /\ Len(t) <= Len(s)
  /\ SubSeq(s, Len(s) - Len(t) + 1, Len(s)) = t

\* C1: every iteration of the scan loop that does not return strictly
\* advances the cursor, the iteration that processes "--" included.
C1_CursorAdvances == [][(pc = "scan" /\ pc' = "scan") => i' > i]_vars

\* C2: with a collector, once the scan meets "--" at index k the call
\* finishes with the tokens after k at the end of the positional sequence,
\* verbatim and in order.
C2_AfterTerminatorPositional ==
  \A k \in 1..(MaxArgs + 1) :
    (pc = "scan" /\ has_positional /\ i = k /\ k < argc /\ argv[k] = TokTerm)
      ~> (pc = "done" /\ IsSuffix(TailFrom(k), positional_arguments))

\* C3: after a successful return a boolean option's variable is true iff an
\* option token matched it.
C3_BoolIffPresent ==
  (pc = "done" /\ result = <<>>) =>
    \A k \in Descriptors :
      option_specifiers[k].Kind = "bool" => (Value[k] <=> found_options[k])

\* descriptor k is spelled by the option text o
Spells(k, o) ==
  \/ Len(o) = 1 /\ option_specifiers[k].ShortOpt = o[1]
  \/ option_specifiers[k].LongOpt = o

Matching(o) == {k \in Descriptors : Spells(k, o)}

Least(S) == CHOOSE x \in S : \A y \in S : x <= y

RECURSIVE WellFormedFrom(_, _, _, _)
\* Reads the argument list from index j as a well-formed list is read: seen
\* is the set of descriptors matched so far, term says whether "--" has
\* passed, vals holds the values supplied so far.  ok is false as soon as the
\* list is not well formed.
WellFormedFrom(j, seen, term, vals) ==
  IF j >= argc
    THEN [ok   |-> \A k \in Descriptors : option_specifiers[k].Required => k \in seen,
          seen |-> seen, vals |-> vals]
  ELSE IF argv[j] = TokTerm
    THEN WellFormedFrom(j + 1, seen, TRUE, vals)
  ELSE LET o == OptOf(argv[j], term)
       IN  IF o = <<>>
             THEN IF has_positional
                    THEN WellFormedFrom(j + 1, seen, term, vals)
                    ELSE [ok |-> FALSE, seen |-> seen, vals |-> vals]
           ELSE IF Matching(o) = {} \/ Least(Matching(o)) \in seen
             THEN [ok |-> FALSE, seen |-> seen, vals |-> vals]
           ELSE LET k == Least(Matching(o))
                    a == option_specifiers[k]
                IN  IF ~a.ReadsValue
                      THEN WellFormedFrom(j + 1, seen \cup {k}, term,
                                          [vals EXCEPT ![k] = TRUE])
                    ELSE IF j + 1 < argc /\ from_string(a.Kind, argv[j + 1]).ok
                      THEN WellFormedFrom(j + 2, seen \cup {k}, term,
                             [vals EXCEPT ![k] = from_string(a.Kind, argv[j + 1]).t])
                    ELSE [ok |-> FALSE, seen |-> seen, vals |-> vals]

WellFormed == WellFormedFrom(1, {}, FALSE, Value0)

\* C4: a well-formed argument list is parsed successfully and every matched
\* option's variable holds the value supplied for it.
C4_WellFormedSucceeds ==
  (pc = "done" /\ WellFormed.ok) =>
    /\ result = <<>>
    /\ \A k \in WellFormed.seen : Value[k] = WellFormed.vals[k]

\* the forms of an option token
IsShortForm(a) == Len(a) = 2 /\ a[1] = "-" /\ a[2] # "-"

IsLongForm(a) == Len(a) >= 3 /\ a[1] = "-" /\ a[2] = "-"

OptionText(a) == IF IsShortForm(a) THEN <<a[2]>> ELSE SubSeq(a, 3, Len(a))

\* the scan is about to classify an option token
AtOptionToken ==
  /\ pc = "scan" /\ i < argc
  /\ ~end_of_options_reached
  /\ IsShortForm(arg) \/ IsLongForm(arg)

\* the scan is about to classify a token that is neither an option token nor
\* the terminator
AtPositionalToken ==
  /\ pc = "scan" /\ i < argc
  /\ arg # TokTerm
  /\ end_of_options_reached \/ ~(IsShortForm(arg) \/ IsLongForm(arg))

BareOptionError == <<"Bare option found!">>

UnrecognizedOptionError(o) == <<"Unrecognized option found: ">> \o o

DuplicateOptionError(o) == <<"Duplicate option found: ">> \o o

MissingValueError(o) == <<"No value for option ">> \o o

ValueParseError(v, o) == <<"Unable to parse value \"">> \o v \o <<"\" for option ">> \o o

MissingHead == "Missing required option \""

\* C5: an option token that matches an already matched descriptor returns
\* the duplicate-option error naming it, by whichever spelling, and leaves
\* the seen flags, the bound variables and the positional sequence alone.
C5_DuplicateOption ==
  [][(AtOptionToken /\ Matching(OptionText(arg)) # {}
        /\ found_options[Least(Matching(OptionText(arg)))])
       => /\ pc' = "done"
          /\ result' = DuplicateOptionError(OptionText(arg))
          /\ UNCHANGED <<Value, found_options, positional_arguments, i>>]_vars

\* the long spelling is reported as a duplicate of the short one
C5_Witness ==
  /\ pc = "done"
  /\ option_specifiers = ExampleOpts
  /\ argc = 4 /\ argv[1] = TokShortN
  /\ result = DuplicateOptionError(<<"n", "u", "m", "b", "e", "r">>)
  /\ Value[2] = 5

\* the required descriptors that no option token matched
MissingRequired ==
  {k \in Descriptors : option_specifiers[k].Required /\ ~found_options[k]}

\* the name a missing option is reported by
ReportedName(k) ==
  IF option_specifiers[k].LongOpt # <<>>
    THEN <<"-", "-">> \o option_specifiers[k].LongOpt
    ELSE <<"-", option_specifiers[k].ShortOpt>>

RECURSIVE LinesOf(_)
\* one line per descriptor of S, by increasing index
LinesOf(S) ==
  IF S = {} THEN <<>>
  ELSE <<MissingHead>> \o ReportedName(Least(S)) \o <<"\"\n">>
         \o LinesOf(S \ {Least(S)})

CountOf(x, s) == Cardinality({n \in 1..Len(s) : s[n] = x})

\* C6: when the scan reaches the end of the list the call returns one
\* "Missing required option" line per required descriptor not seen, in
\* declaration order, named by the long spelling if there is one and else
\* by the short one, and the empty string iff none is missing.
C6_MissingRequiredLines ==
  [][(pc = "scan" /\ i >= argc)
       => /\ pc' = "done"
          /\ result' = LinesOf(MissingRequired)
          /\ CountOf(MissingHead, result') = Cardinality(MissingRequired)
          /\ (result' = <<>>) <=> (MissingRequired = {})]_vars

\* a short-only and a long-only required option are both reported, in order,
\* and the supplied boolean is not
C6_Witness ==
  /\ pc = "done"
  /\ option_specifiers = ShadowOpts
  /\ found_options[2]
  /\ result = <<MissingHead, "-", "n", "\"\n",
                MissingHead, "-", "-", "n", "u", "m", "b", "e", "r", "\"\n">>

\* the error of the token the scan is at, if that token is in error
ScanErrorAt ==
  IF AtPositionalToken THEN BareOptionError
  ELSE LET o == OptionText(arg)
       IN  IF Matching(o) = {} THEN UnrecognizedOptionError(o)
           ELSE IF found_options[Least(Matching(o))] THEN DuplicateOptionError(o)
           ELSE IF i + 1 >= argc THEN MissingValueError(o)
           ELSE ValueParseError(argv[i + 1], o)

\* C7: a scan error ends the call: the call returns the error of the failing
\* token, without any missing-required-option line, and nothing happens
\* after the return.
C7_FirstErrorEndsCall ==
  [][/\ pc = "scan"
     /\ (result' # <<>> => pc' = "done")
     /\ (pc' = "done" /\ i < argc)
          => /\ result' = ScanErrorAt
             /\ CountOf(MissingHead, result') = 0
             /\ UNCHANGED positional_arguments]_vars

\* an unrecognized option ends the call while a required option is missing
\* and arguments remain
C7_Witness ==
  /\ pc = "done"
  /\ result # <<>> /\ result[1] = "Unrecognized option found: "
  /\ MissingRequired # {}
  /\ i + 1 < argc

\* C8: an option token that spells no descriptor returns the
\* unrecognized-option error naming it; no seen flag is set and no bound
\* variable is written.
C8_UnrecognizedOption ==
  [][(AtOptionToken /\ Matching(OptionText(arg)) = {})
       => /\ pc' = "done"
          /\ result' = UnrecognizedOptionError(OptionText(arg))
          /\ UNCHANGED <<Value, found_options>>]_vars

\* a long-form token that begins with a short spelling is not recognized
C8_Witness ==
  /\ pc = "done"
  /\ option_specifiers = ShadowOpts
  /\ result = UnrecognizedOptionError(<<"f", "l", "a", "g">>)
  /\ Value = Value0
  /\ \A k \in Descriptors : ~found_options[k]

\* C9: without a collector, a token that is neither an option token nor the
\* terminator returns the bare-argument error, and after a terminator the
\* call returns that error for the first following token that is not "--".
C9_BareArgument ==
  /\ [][(AtPositionalToken /\ ~has_positional)
          => (pc' = "done" /\ result' = BareOptionError)]_vars
  /\ \A k \in 1..(MaxArgs + 1) :
       (/\ pc = "scan" /\ ~has_positional
        /\ i = k /\ k < argc /\ argv[k] = TokTerm
        /\ \E j \in (k + 1)..(argc - 1) : argv[j] # TokTerm)
         ~> (pc = "done" /\ result = BareOptionError)

\* C10: the token after a matched value-reading option is consumed as its
\* value and is not classified: only that option's seen flag and variable
\* change, the terminator flag and the positional sequence do not, and the
\* scan resumes two tokens on or returns the value-parse error.
C10_ValueTokenConsumed ==
  [][(AtOptionToken /\ Matching(OptionText(arg)) # {} /\ i + 1 < argc
        /\ ~found_options[Least(Matching(OptionText(arg)))]
        /\ option_specifiers[Least(Matching(OptionText(arg)))].ReadsValue)
       => LET k == Least(Matching(OptionText(arg)))
          IN  /\ found_options' = [found_options EXCEPT ![k] = TRUE]
              /\ \A d \in Descriptors \ {k} : Value'[d] = Value[d]
              /\ UNCHANGED <<end_of_options_reached, positional_arguments>>
              /\ \/ /\ pc' = "scan" /\ i' = i + 2
                    /\ option_specifiers[k].Kind = "string" => Value'[k] = argv[i + 1]
                 \/ /\ pc' = "done"
                    /\ result' = ValueParseError(argv[i + 1], OptionText(arg))]_vars

\* "--" was stored as the value of a string option and the scan went on in
\* option mode with the token after it
C10_Witness ==
  /\ pc = "scan" /\ i = 3
  /\ option_specifiers = ExampleOpts
  /\ argv[1] = TokShortS /\ argv[2] = TokTerm
  /\ Value[3] = TokTerm
  /\ ~end_of_options_reached
  /\ positional_arguments = positional0

\* C11: a matched value-reading option that is the last token returns the
\* missing-value error naming the option and leaves its variable unchanged.
C11_MissingValue ==
  [][(AtOptionToken /\ Matching(OptionText(arg)) # {} /\ i + 1 >= argc
        /\ ~found_options[Least(Matching(OptionText(arg)))]
        /\ option_specifiers[Least(Matching(OptionText(arg)))].ReadsValue)
       => /\ pc' = "done"
          /\ result' = MissingValueError(OptionText(arg))
          /\ UNCHANGED Value]_vars

\* -n ends the list after a flag and a positional argument
C11_Witness ==
  /\ pc = "done"
  /\ option_specifiers = ExampleOpts
  /\ argc = 4 /\ argv[3] = TokShortN /\ argv[1] = TokShortF
  /\ result = MissingValueError(<<"n">>)
  /\ Value[2] = Value0[2]

\* C12: the variable of a descriptor that no option token matched is never
\* changed: it holds what it held when the call started, false for a
\* boolean.
C12_UnmatchedUntouched ==
  \A k \in Descriptors :
    ~found_options[k] =>
      /\ Value[k] = Value0[k]
      /\ option_specifiers[k].Kind = "bool" => Value[k] = FALSE

\* the number was stored; the string option and the flags did not appear
C12_Witness ==
  /\ pc = "done"
  /\ option_specifiers = ExampleOpts
  /\ found_options[2] /\ Value[2] = 5 /\ Value0[2] = 7
  /\ ~found_options[3] /\ Value[3] = DefaultString
  /\ ~found_options[1] /\ Value[1] = FALSE
  /\ positional_arguments # positional0

RECURSIVE SplitLines(_)
\* the lines of a text, without their newlines
SplitLines(text) ==
  IF text = <<>> THEN <<>>
  ELSE LET n == Least({k \in 1..Len(text) : text[k] = "\n"})
       IN  <<SubSeq(text, 1, n - 1)>> \o SplitLines(SubSeq(text, n + 1, Len(text)))

\* the column the help text of a line starts at
HelpColumn(line) == Least({n \in 1..Len(line) : line[n] \in HelpTexts})

\* C13: usage_string starts the help text of every descriptor line at the
\* same column, and the padding count of no line is negative.
C13_HelpAligned ==
  (pc = "done" /\ usage # <<>>) =>
    /\ usage # <<"std::length_error">>
    /\ \A k \in Descriptors :
         UsagePrinter(option_specifiers[k], Value[k],
                      MaxOptionLengthOver(option_specifiers, 0, 0)).pad >= 0
    /\ LET lines == SplitLines(usage)
       IN  /\ Len(lines) = NumOptions(option_specifiers) + 1
           /\ \A a, b \in 2..Len(lines) : HelpColumn(lines[a]) = HelpColumn(lines[b])

\* a line without a long spelling above a line with a long spelling and a
\* type tag, both with the help text at column 20
C13_Witness ==
  /\ pc = "done" /\ usage # <<>>
  /\ NumOptions(option_specifiers) = 2
  /\ option_specifiers[0].LongOpt = <<>> /\ ~option_specifiers[0].ReadsValue
  /\ option_specifiers[1].LongOpt = <<"n", "u", "m", "b", "e", "r">>
  /\ option_specifiers[1].Kind = "int" /\ option_specifiers[1].ShortOpt = NUL
  /\ HelpColumn(SplitLines(usage)[2]) = 20
  /\ HelpColumn(SplitLines(usage)[3]) = 20

\* C14: when the call returns the value-parse error for an option, that
\* option's variable still holds the value it had before the call.
C14_FailedValueNotStored ==
  (pc = "done" /\ result # <<>> /\ result[1] = "Unable to parse value \"") =>
    LET k == Least(Matching(OptionText(argv[i - 1])))
    IN  Value[k] = Value0[k]

\* C15: find_match returns the lowest-index descriptor the token spells, and
\* no match iff it spells none; so an option token marks and writes only
\* that descriptor, never a later one that shares the spelling.
C15_FirstMatch ==
  [][AtOptionToken
       => LET S == Matching(OptionText(arg))
          IN  /\ match.Matched <=> S # {}
              /\ match.Matched => match.Index = Least(S)
              /\ \A k \in Descriptors :
                   (found_options'[k] # found_options[k] \/ Value'[k] # Value[k])
                     => (S # {} /\ k = Least(S))]_vars

\* --number marked the string option and not the boolean that shares the
\* spelling
C15_Witness ==
  /\ pc = "scan" /\ i = 3
  /\ option_specifiers = ShadowOpts
  /\ argv[1] = TokLongNum
  /\ found_options[1] /\ ~found_options[2]
  /\ Value[1] = argv[2]

\* C16: before any terminator a token goes to the matcher exactly when it is
\* '-' and one other character, or "--" and at least one more character;
\* any other token but "--" is handled as a positional argument.
C16_Classification ==
  [][(pc = "scan" /\ i < argc /\ ~end_of_options_reached /\ arg # TokTerm)
       => IF IsShortForm(arg) \/ IsLongForm(arg)
            THEN /\ opt = OptionText(arg)
                 /\ UNCHANGED positional_arguments
                 /\ \/ found_options' # found_options
                    \/ /\ pc' = "done"
                       /\ result' \in {UnrecognizedOptionError(OptionText(arg)),
                                       DuplicateOptionError(OptionText(arg))}
            ELSE /\ opt = <<>>
                 /\ UNCHANGED <<found_options, Value>>
                 /\ IF has_positional
                      THEN /\ positional_arguments' = Append(positional_arguments, arg)
                           /\ i' = i + 1 /\ pc' = "scan"
                      ELSE pc' = "done" /\ result' = BareOptionError]_vars

\* "-", "" and "-ab" were collected and no option was looked up
C16_Witness ==
  /\ pc = "scan" /\ i = 4
  /\ has_positional
  /\ positional_arguments = positional0 \o <<TokDash, TokEmpty, TokDashes>>
  /\ ~end_of_options_reached
  /\ \A k \in Descriptors : ~found_options[k]

RECURSIVE CollectedFrom(_, _)
\* the positional tokens among the arguments from index j up to the cursor:
\* not "--", not an option token, not the value of a value-reading option
CollectedFrom(j, term) ==
  IF j >= i THEN <<>>
  ELSE IF argv[j] = TokTerm THEN CollectedFrom(j + 1, TRUE)
  ELSE IF ~term /\ (IsShortForm(argv[j]) \/ IsLongForm(argv[j]))
    THEN LET S == Matching(OptionText(argv[j]))
         IN  IF S # {} /\ option_specifiers[Least(S)].ReadsValue
               THEN CollectedFrom(j + 2, term)
               ELSE CollectedFrom(j + 1, term)
  ELSE <<argv[j]>> \o CollectedFrom(j + 1, term)

\* C17: with a collector, the vector always holds what it held when the call
\* started followed by the positional tokens scanned so far, in input order.
C17_CollectorAppendOnly ==
  has_positional =>
    positional_arguments = positional0 \o CollectedFrom(1, FALSE)

\* a vector that was not empty got "ab" appended, and neither -s nor its
\* value -f
C17_Witness ==
  /\ pc = "scan" /\ i = 4
  /\ option_specifiers = ExampleOpts
  /\ has_positional
  /\ argv[1] = TokShortS /\ argv[2] = TokShortF
  /\ positional0 = <<TokWord>>
  /\ positional_arguments = <<TokWord, TokWord>>

DecimalChars == {"0", "1", "2", "3", "4", "5", "6", "7", "8", "9"}

OctalChars == {"0", "1", "2", "3", "4", "5", "6", "7"}

HexChars == DecimalChars \cup {"a", "b", "c", "d", "e", "f"}

\* an integer literal: an optional sign, then decimal, octal or hexadecimal
\* digits, at least one
IsNumericLiteral(v) ==
  LET body == IF v # <<>> /\ v[1] \in {"-", "+"} THEN SubSeq(v, 2, Len(v)) ELSE v
  IN  /\ body # <<>>
      /\ \/ body[1] # "0" /\ \A n \in 1..Len(body) : body[n] \in DecimalChars
         \/ body[1] = "0" /\ \A n \in 1..Len(body) : body[n] \in OctalChars
         \/ /\ Len(body) >= 3 /\ body[1] = "0" /\ body[2] = "x"
            /\ \A n \in 3..Len(body) : body[n] \in HexChars

\* C18: the value token of an integer option is accepted only if the whole
\* token is a numeric literal; any other token, the empty one included,
\* returns the value-parse error.
C18_IntegerWholeToken ==
  [][(AtOptionToken /\ Matching(OptionText(arg)) # {} /\ i + 1 < argc
        /\ ~found_options[Least(Matching(OptionText(arg)))]
        /\ option_specifiers[Least(Matching(OptionText(arg)))].Kind = "int"
        /\ ~IsNumericLiteral(argv[i + 1]))
       => /\ pc' = "done"
          /\ result' = ValueParseError(argv[i + 1], OptionText(arg))]_vars

\* C19: the cursor is never below 1 and argv is read only at indices from 1
\* to argc - 1: the program name is never classified and the value of an
\* option is read only after the test that it exists.
C19_ArgvInBounds ==
  /\ i >= 1
  /\ \A r \in argv_reads : 1 <= r /\ r < argc

\* an option that takes a value ended the list: every argument was read and
\* nothing beyond
C19_Witness ==
  /\ pc = "done"
  /\ argc = 4 /\ i = argc
  /\ result # <<>> /\ result[1] = "No value for option "
  /\ argv_reads = {1, 2, 3}

====
